---- MODULE Spec2Model ----
(***************************************************************************)
(* Misconception of the Day: the rotation scheduler                        *)
(* (shared/daily-selection.ts), its two consumers (the App's day           *)
(* navigation and the CLI's generate-images --days), the CLI's pull merge  *)
(* and the markup cleaner (cli/index.ts).                                  *)
(*                                                                         *)
(* Time is counted in whole hours.  An instant t is the number of hours    *)
(* elapsed since new Date(2024, 0, 1), the local midnight of the epoch, so *)
(* date.getTime() - epoch.getTime() is t * 3600000.                        *)
(***************************************************************************)
EXTENDS Integers, Sequences, FiniteSets, TLC

(***************************************************************************)
(* Bounds of the model.                                                    *)
(***************************************************************************)
\* the largest collection size (misconceptions.length)
MaxTotal == 4
\* the clock runs over the local days -DaysBefore .. DaysAfter-1
DaysBefore == 5
DaysAfter == 6
\* the local day on which daylight saving time starts, and the one it ends on
SpringDay == 2
FallDay == 4
\* the largest |days| given to generate-images --days
MaxDays == 3
\* how many days back the App's viewer walks
MaxBack == 2
\* the most candidate records one pull run collects over its pages
MaxCandidates == 3
\* how many pieces of markup a fragment given to the cleaner is made of
MaxFragments == 3
\* how many parts (prose, math elements) a fragment with math is made of
MaxParts == 3
\* how many blocks (headings, list items) a page is made of
MaxBlocks == 4
\* how many list items the section of a page holds
MaxItems == 2

VARIABLES
    tz,          \* the time zone of the machine (fixed for a run)
    total,       \* misconceptions.length
    date,        \* the argument of the last getDailyIndex call
    index,       \* its result
    asked,       \* whether getDailyIndex was called
    now,         \* the App's today = new Date()
    viewDate,    \* the App's viewDate state
    startDate,   \* the arguments of the last getDateRangeIndices call
    days,
    results,     \* its result
    ranged,      \* whether getDateRangeIndices was called
    pc,          \* where the pull command stands
    page,        \* the position in WIKIPEDIA_PAGES of the page being fetched
    allMisconceptions,   \* the candidates pushed so far
    output,      \* the MisconceptionsOutput handed to writeFile
    file,        \* misconceptions.json on disk
    before,      \* the file as the running pull found it
    extracted,   \* per page gone through: how its try block ended
    fragment,    \* the fragment given to cleanHtmlText
    cleaned,     \* cleanHtmlText(fragment)
    recleaned,   \* cleanHtmlText(cleaned)
    stage,       \* how far the cleaner has run
    parts,       \* the prose and the math elements the fragment is made of
    normalized,  \* extractLatex(fragment)
    blocks,      \* the headings and the list items the page is made of
    candidates,  \* the cleaned item texts extractMisconceptions came to
    found,       \* the records extractMisconceptions returned
    parsed       \* whether extractMisconceptions was called

envVars == <<tz, total>>
indexVars == <<date, index, asked>>
appVars == <<now, viewDate>>
rangeVars == <<startDate, days, results, ranged>>
pullVars == <<pc, page, allMisconceptions, output, file, before, extracted>>
cleanVars == <<fragment, cleaned, recleaned, stage>>
mathVars == <<parts, normalized>>
extractVars == <<blocks, candidates, found, parsed>>
vars == <<envVars, indexVars, appVars, rangeVars, pullVars, cleanVars, mathVars, extractVars>>

(***************************************************************************)
(* JavaScript numbers.  TLC's integers are 32 bits wide, the LCG's         *)
(* products are not: a double is kept as four 16-bit limbs, least          *)
(* significant first, and rounded to 53 significant bits the way IEEE-754  *)
(* rounds (to nearest, ties to even).                                      *)
(***************************************************************************)
Limb == 256 * 256

\* the value JavaScript calls undefined (an array read out of range): no index
\* of an array, written among the integers as the one below every index
Undefined == -1

Abs(x) == IF x < 0 THEN -x ELSE x

RECURSIVE Pow2(_)
Pow2(e) == IF e = 0 THEN 1 ELSE 2 * Pow2(e - 1)

RECURSIVE BitLen16(_)
BitLen16(x) == IF x = 0 THEN 0 ELSE 1 + BitLen16(x \div 2)

\* carries (or borrows) pushed up the limbs
Norm4(a0, a1, a2, a3) ==
    LET c0 == a0 \div Limb
        c1 == (a1 + c0) \div Limb
        c2 == (a2 + c1) \div Limb
    IN  <<a0 % Limb, (a1 + c0) % Limb, (a2 + c1) % Limb, a3 + c2>>

BitLen(p) ==
    IF p[4] # 0 THEN 48 + BitLen16(p[4])
    ELSE IF p[3] # 0 THEN 32 + BitLen16(p[3])
    ELSE IF p[2] # 0 THEN 16 + BitLen16(p[2])
    ELSE BitLen16(p[1])

\* the nearest double of the non-negative integer p (ties to even)
RoundToDouble(p) ==
    LET len == BitLen(p) IN
    IF len <= 53 THEN p
    ELSE LET e    == len - 53
             unit == Pow2(e)
             r    == p[1] % unit
             odd  == (p[1] \div unit) % 2 = 1
             up   == r > unit \div 2 \/ (r = unit \div 2 /\ odd)
         IN  Norm4(p[1] - r + (IF up THEN unit ELSE 0), p[2], p[3], p[4])

\* a * 1103515245 for 0 <= a < 2^31, exactly
MulMultiplier(a) ==
    LET mh == 16838   \* 1103515245 = 16838 * 65536 + 20077
        ml == 20077
        sh == a \div Limb
        sl == a % Limb
        c0 == sl * ml
        c1 == sh * ml + sl * mh + c0 \div Limb
        c2 == sh * mh + c1 \div Limb
    IN  <<c0 % Limb, c1 % Limb, c2 % Limb, c2 \div Limb>>

\* x % y of JavaScript: the remainder has the sign of x
JsRem(x, y) == IF x >= 0 THEN x % y ELSE -((-x) % y)

\* a[i] of a JavaScript array kept as a sequence
ArrayGet(a, i) == IF i \in 0 .. Len(a) - 1 THEN a[i + 1] ELSE Undefined

(***************************************************************************)
(* shared/daily-selection.ts                                               *)
(***************************************************************************)

\* createSeededRandom's state update:
\*   state = ((state * 1103515245 + 12345) >>> 0) % 2147483648
\* The product and the sum are each rounded to a double; >>> 0 takes the
\* result modulo 2^32 (a negative one counted up from 2^32).
LcgNext(state) ==
    LET prod  == RoundToDouble(MulMultiplier(Abs(state)))
        sum   == IF state >= 0
                 THEN RoundToDouble(Norm4(prod[1] + 12345, prod[2], prod[3], prod[4]))
                 ELSE RoundToDouble(Norm4(prod[1] - 12345, prod[2], prod[3], prod[4]))
        low31 == (sum[2] % 32768) * Limb + sum[1]
    IN  IF state >= 0 \/ low31 = 0 THEN low31 ELSE (2147483647 - low31) + 1

\* Math.floor(random() * n) where random() is state / 2147483648
RandomBelow(state, n) ==
    ((state \div Limb) * n + ((state % Limb) * n) \div Limb) \div 32768

\* a swap that writes one side only: indices[i] = indices[j]
SwapOneWay(indices, i, j) ==
    [k \in 1 .. Len(indices) |-> IF k = i + 1 THEN indices[j + 1] ELSE indices[k]]

\* [indices[i], indices[j]] = [indices[j], indices[i]]
Swap(indices, i, j) ==
    [k \in 1 .. Len(indices) |->
        IF k = i + 1 THEN indices[j + 1]
        ELSE IF k = j + 1 THEN indices[i + 1]
        ELSE indices[k]]

\* the Fisher-Yates loop of getShuffledIndices from position i down to 1
RECURSIVE ShuffleLoop(_, _, _)
ShuffleLoop(indices, i, state) ==
    IF i <= 0 THEN indices
    ELSE LET next == LcgNext(state)
             j    == RandomBelow(next, i + 1)
         IN  ShuffleLoop(Swap(indices, i, j), i - 1, next)

getShuffledIndices(n, seed) ==
    ShuffleLoop([k \in 1 .. n |-> k - 1], n - 1, seed)

\* Math.floor((date.getTime() - epoch.getTime()) / (1000 * 60 * 60 * 24))
DaysSinceEpoch(d) == d \div 24

CycleNumber(daysSinceEpoch, n) == daysSinceEpoch \div n

\* the position without the handling of negative days
PositionInCycleNoWrap(daysSinceEpoch, n) == JsRem(daysSinceEpoch, n)

\* ((daysSinceEpoch % total) + total) % total
PositionInCycle(daysSinceEpoch, n) == (JsRem(daysSinceEpoch, n) + n) % n

getDailyIndex(d, n) ==
    LET daysSinceEpoch == DaysSinceEpoch(d)
        shuffled == getShuffledIndices(n, CycleNumber(daysSinceEpoch, n))
    IN  ArrayGet(shuffled, PositionInCycle(daysSinceEpoch, n))

(***************************************************************************)
(* The clock and the time zone.  A zone with daylight saving time puts the *)
(* clock one hour forward from SpringDay to FallDay; the epoch's midnight  *)
(* is in standard time.  "DST02" switches at 02:00 standard time (to 03:00,*)
(* and back from 03:00 to 02:00), "DST00" at 00:00 (to 01:00, and back     *)
(* from 01:00 to 00:00).                                                   *)
(***************************************************************************)
TimeZones == {"UTC", "DST02", "DST00"}

Instants == -24 * DaysBefore .. 24 * DaysAfter - 1

SwitchHour(z) == IF z = "DST02" THEN 2 ELSE 0

\* the local offset at instant t, less the offset at the epoch, in hours
Offset(z, t) ==
    IF z # "UTC" /\ 24 * SpringDay + SwitchHour(z) <= t
                 /\ t < 24 * FallDay + SwitchHour(z)
    THEN 1 ELSE 0

\* LocalTime(t) of ECMAScript: the wall clock at instant t
LocalTime(z, t) == t + Offset(z, t)

\* UTC(t) of ECMAScript: the instant of a wall-clock time.  A repeated
\* wall-clock hour is the earlier instant; a skipped one is read with the
\* offset before the switch.
UTC(z, local) == IF Offset(z, local - 1) = 1 THEN local - 1 ELSE local

\* getFullYear(), getMonth(), getDate(): the local calendar day
LocalDay(z, t) == LocalTime(z, t) \div 24

\* d.setDate(d.getDate() + k)
SetDate(z, d, k) == UTC(z, LocalTime(z, d) + 24 * k)

\* getDateRangeIndices' loop from i up to count - 1
RECURSIVE RangeLoop(_, _, _, _, _, _)
RangeLoop(z, start, i, count, step, n) ==
    IF i >= count THEN <<>>
    ELSE LET d == SetDate(z, start, i * step)
         IN  <<[date |-> d, index |-> getDailyIndex(d, n)]>>
                 \o RangeLoop(z, start, i + 1, count, step, n)

Reverse(s) == [k \in 1 .. Len(s) |-> s[Len(s) + 1 - k]]

\* the range query without the reversal of a backward walk
getDateRangeIndicesUnsorted(z, start, nDays, n) ==
    RangeLoop(z, start, 0, Abs(nDays), IF nDays >= 0 THEN 1 ELSE -1, n)

\* the range query stepping forward whatever the sign of the count
getDateRangeIndicesForward(z, start, nDays, n) ==
    LET res == RangeLoop(z, start, 0, Abs(nDays), 1, n)
    IN  IF nDays < 0 THEN Reverse(res) ELSE res

getDateRangeIndices(z, start, nDays, n) ==
    LET count == Abs(nDays)
        step  == IF nDays >= 0 THEN 1 ELSE -1
        res   == RangeLoop(z, start, 0, count, step, n)
    IN  IF nDays < 0 THEN Reverse(res) ELSE res

(***************************************************************************)
(* src/App.tsx                                                             *)
(***************************************************************************)
isSameDay(z, date1, date2) == LocalDay(z, date1) = LocalDay(z, date2)

addDays(z, d, k) == SetDate(z, d, k)

(***************************************************************************)
(* Strings are sequences of one-character strings.                         *)
(***************************************************************************)
\* the characters with the char codes 32 .. 126, in order (the grave accent,
\* code 96, is written out: the module's strings cannot hold it)
Ascii ==
    <<" ", "!", "\"", "#", "$", "%", "&", "'", "(", ")", "*", "+", ",", "-", ".", "/",
      "0", "1", "2", "3", "4", "5", "6", "7", "8", "9", ":", ";", "<", "=", ">", "?",
      "@", "A", "B", "C", "D", "E", "F", "G", "H", "I", "J", "K", "L", "M", "N", "O",
      "P", "Q", "R", "S", "T", "U", "V", "W", "X", "Y", "Z", "[", "\\", "]", "^", "_",
      "grave", "a", "b", "c", "d", "e", "f", "g", "h", "i", "j", "k", "l", "m", "n", "o",
      "p", "q", "r", "s", "t", "u", "v", "w", "x", "y", "z", "{", "|", "}", "~">>

\* the char code of every character of the model
CodeOf ==
    [c \in {Ascii[k] : k \in 1 .. Len(Ascii)} \cup {"\t", "\n"} |->
        IF c = "\t" THEN 9
        ELSE IF c = "\n" THEN 10
        ELSE 31 + (CHOOSE k \in 1 .. Len(Ascii) : Ascii[k] = c)]

\* char.charCodeAt(0)
charCodeAt(c) == CodeOf[c]

\* c.toLowerCase()
toLowerCase(c) ==
    IF charCodeAt(c) \in 65 .. 90 THEN Ascii[charCodeAt(c) + 32 - 31] ELSE c

\* text.split("").reduce((acc, char) => acc + char.charCodeAt(0), 0)
RECURSIVE SumCodes(_)
SumCodes(text) ==
    IF text = <<>> THEN 0 ELSE charCodeAt(Head(text)) + SumCodes(Tail(text))

\* n.toString(16)
RECURSIVE toString16(_)
toString16(n) ==
    LET digit(d) == IF d < 10 THEN Ascii[d + 48 - 31] ELSE Ascii[d - 10 + 97 - 31]
    IN  IF n < 16 THEN <<digit(n)>> ELSE toString16(n \div 16) \o <<digit(n % 16)>>

Min(x, y) == IF x <= y THEN x ELSE y

(***************************************************************************)
(* cli/index.ts: the record identifier and the pull command                *)
(***************************************************************************)
generateId(text) ==
    LET isKept(c) == charCodeAt(c) \in 97 .. 122 \/ charCodeAt(c) \in 48 .. 57
        kept == SelectSeq([k \in 1 .. Len(text) |-> toLowerCase(text[k])], isKept)
        hash == SubSeq(kept, 1, Min(30, Len(kept)))
    IN  hash \o <<"-">> \o toString16(SumCodes(text))

\* the categories of WIKIPEDIA_PAGES, in the order of the list
WIKIPEDIA_PAGES == <<"Arts & Culture", "History", "Science, Technology & Mathematics">>

\* the texts the extraction of a page may return: the first two differ and
\* share an id (the same letters, the same sum of char codes)
Texts == {<<"A", "b", ".">>, <<"a", "B", ".">>, <<"C", "d", ".">>}

RECURSIVE SeqsUpTo(_, _)
SeqsUpTo(S, n) ==
    IF n = 0 THEN {<<>>}
    ELSE LET shorter == SeqsUpTo(S, n - 1)
         IN  shorter \cup {Append(q, x) : q \in shorter, x \in S}

\* what extractMisconceptions may return for a page: the texts it accepted
Extractions == SeqsUpTo(Texts, MaxCandidates)

\* the Misconception pushed for an accepted text of page p
Misconception(text, p) ==
    [id |-> generateId(text), text |-> text, category |-> WIKIPEDIA_PAGES[p]]

\* what extractMisconceptions returns for page p when it accepts these texts
MisconceptionsOf(texts, p) == [k \in 1 .. Len(texts) |-> Misconception(texts[k], p)]

\* how the try block of a page ends: it threw, or the extraction returned
Threw == [threw |-> TRUE, misconceptions |-> <<>>]

Returned(misconceptions) == [threw |-> FALSE, misconceptions |-> misconceptions]

\* the try block and its catch: a page that threw pushes nothing
PushPage(all, outcome) ==
    IF outcome.threw THEN all ELSE all \o outcome.misconceptions

\* new Map(entries): the keys in the order they were first set, each with the
\* value it was last set to
RECURSIVE MapOf(_, _)
MapOf(entries, map) ==
    IF entries = <<>> THEN map
    ELSE LET e  == Head(entries)
             at == {k \in 1 .. Len(map) : map[k][1] = e[1]}
         IN  MapOf(Tail(entries),
                   IF at = {} THEN Append(map, e)
                   ELSE [k \in 1 .. Len(map) |-> IF k \in at THEN e ELSE map[k]])

\* a merge that keeps every candidate
uniqueMisconceptionsAll(all) == all

\* a merge that keeps the first record of each id
RECURSIVE KeepFirst(_, _)
KeepFirst(all, kept) ==
    IF all = <<>> THEN kept
    ELSE KeepFirst(Tail(all),
                   IF \E k \in 1 .. Len(kept) : kept[k].id = Head(all).id
                   THEN kept ELSE Append(kept, Head(all)))

uniqueMisconceptionsFirst(all) == KeepFirst(all, <<>>)

\* a merge that keeps the last record of each id at the place of that last one
uniqueMisconceptionsLastPlace(all) ==
    LET last == {i \in 1 .. Len(all) : \A j \in i + 1 .. Len(all) : all[j].id # all[i].id}
        nth(k) == CHOOSE i \in last : Cardinality({j \in last : j <= i}) = k
    IN  [k \in 1 .. Cardinality(last) |-> all[nth(k)]]

\* Array.from(new Map(allMisconceptions.map((m) => [m.id, m])).values())
uniqueMisconceptions(all) ==
    LET map == MapOf([k \in 1 .. Len(all) |-> <<all[k].id, all[k]>>], <<>>)
    IN  [k \in 1 .. Len(map) |-> map[k][2]]

\* the MisconceptionsOutput built from the merged list
Output(unique) == [totalCount |-> Len(unique), misconceptions |-> unique]

\* misconceptions.json: not there yet, written whole, or cut short by a
\* writeFile that failed
NoFile == [state |-> "absent", totalCount |-> 0, misconceptions |-> <<>>]

FileOf(out) ==
    [state |-> "written", totalCount |-> out.totalCount, misconceptions |-> out.misconceptions]

CutFile == [state |-> "cut", totalCount |-> 0, misconceptions |-> <<>>]

\* a write that keeps the old file's records whose id the run did not produce
writeFileMerging(old, out) ==
    LET kept == SelectSeq(old.misconceptions,
                          LAMBDA m : \A k \in 1 .. Len(out.misconceptions) :
                                         out.misconceptions[k].id # m.id)
    IN  FileOf(Output(kept \o out.misconceptions))

\* writeFile(outputPath, JSON.stringify(output, null, 2)): the file is replaced
writeFile(old, out) == FileOf(out)

\* the for loop abandoned at the first page that throws
PageAfterAborting(p, outcome) ==
    IF outcome.threw THEN Len(WIKIPEDIA_PAGES) + 1 ELSE p + 1

\* for (const page of WIKIPEDIA_PAGES): the next page, whatever page p did
PageAfter(p, outcome) == p + 1

(***************************************************************************)
(* Regular expressions.  Every pattern of cli/index.ts is a sequence of    *)
(* literals and of repeated character classes, greedy or lazy; a match is  *)
(* the list of the positions at which its atoms start, closed by the       *)
(* position after the match, found by backtracking in the order            *)
(* JavaScript tries (a greedy repeat from the longest run down, a lazy one *)
(* from the shortest up).                                                  *)
(***************************************************************************)
\* a string literal as a sequence of characters
Chars(str) == [i \in 1 .. Len(str) |-> SubSeq(str, i, i)]

Lit(str) == [kind |-> "lit", text |-> Chars(str), class |-> "", min |-> 0, lazy |-> FALSE]

\* class* or class+ (min 0 or 1)
Greedy(class, min) == [kind |-> "rep", text |-> <<>>, class |-> class, min |-> min, lazy |-> FALSE]

\* class*?
Lazy(class) == [kind |-> "rep", text |-> <<>>, class |-> class, min |-> 0, lazy |-> TRUE]

RegExp(atoms, ignoreCase) == [atoms |-> atoms, ignoreCase |-> ignoreCase]

\* a character that is none of those the model writes: char codes above 126
NonAscii == "nonascii"

\* the no-break space, char code 160: white space to \s and to trim
NoBreakSpace == "nbsp"

IsDigit(c) == c \in {"0", "1", "2", "3", "4", "5", "6", "7", "8", "9"}

IsHexDigit(c) ==
    IsDigit(c) \/ c \in {"a", "b", "c", "d", "e", "f", "A", "B", "C", "D", "E", "F"}

IsSpace(c) == c \in {" ", "\t", "\n", NoBreakSpace}

InClass(class, c) ==
    CASE class = "any"      -> TRUE            \* [\s\S]
      [] class = "dot"      -> c # "\n"        \* .
      [] class = "notGt"    -> c # ">"         \* [^>]
      [] class = "notQuote" -> c # "\""        \* [^"]
      [] class = "space"    -> IsSpace(c)      \* \s
      [] class = "digit"    -> IsDigit(c)      \* \d
      [] class = "hex"      -> IsHexDigit(c)   \* [0-9a-fA-F]

Lower(c) == IF c \in DOMAIN CodeOf THEN toLowerCase(c) ELSE c

LitAt(s, i, text, ignoreCase) ==
    /\ i + Len(text) - 1 <= Len(s)
    /\ \A k \in 1 .. Len(text) :
           IF ignoreCase THEN Lower(s[i + k - 1]) = Lower(text[k])
           ELSE s[i + k - 1] = text[k]

\* how many characters of the class follow from position i
RunLength(s, i, class) ==
    LET stop == CHOOSE j \in i .. Len(s) + 1 :
                    /\ j = Len(s) + 1 \/ ~InClass(class, s[j])
                    /\ \A k \in i .. j - 1 : InClass(class, s[k])
    IN  stop - i

\* whether the k-th atom can begin at position i (no atom left: it can)
CanStart(re, k, s, i) ==
    IF k > Len(re.atoms) THEN TRUE
    ELSE LET atom == re.atoms[k] IN
         IF atom.kind = "lit" THEN LitAt(s, i, atom.text, re.ignoreCase)
         ELSE atom.min = 0 \/ (i <= Len(s) /\ InClass(atom.class, s[i]))

RECURSIVE MatchAt(_, _, _, _)
RECURSIVE TryRepeat(_, _, _, _, _)
\* the atoms from the k-th on, matched where starts[k] says, starts being
\* where the atoms up to the k-th begin: where every atom begins and where
\* the match ends, <<>> when the atoms do not match
MatchAt(re, k, s, starts) ==
    CASE k > Len(re.atoms) -> starts
      [] k <= Len(re.atoms) /\ re.atoms[k].kind = "lit" ->
             IF LitAt(s, starts[k], re.atoms[k].text, re.ignoreCase)
             THEN MatchAt(re, k + 1, s, Append(starts, starts[k] + Len(re.atoms[k].text)))
             ELSE <<>>
      [] OTHER ->
             TryRepeat(re, k, s, starts,
                       {n \in re.atoms[k].min .. RunLength(s, starts[k], re.atoms[k].class) :
                            CanStart(re, k + 1, s, starts[k] + n)})

\* the k-th atom, a repeat, taking one of the counts after which the next atom
\* can begin: a greedy repeat the largest first, a lazy one the smallest
TryRepeat(re, k, s, starts, counts) ==
    IF counts = {} THEN <<>>
    ELSE LET n    == IF re.atoms[k].lazy
                     THEN CHOOSE c \in counts : \A d \in counts : c <= d
                     ELSE CHOOSE c \in counts : \A d \in counts : c >= d
             rest == MatchAt(re, k + 1, s, Append(starts, starts[k] + n))
         IN  IF rest # <<>> THEN rest
             ELSE TryRepeat(re, k, s, starts, counts \ {n})

\* the match at the least of the positions, <<>> when none of them matches
RECURSIVE FirstMatch(_, _, _)
FirstMatch(re, s, positions) ==
    IF positions = {} THEN <<>>
    ELSE LET i == CHOOSE c \in positions : \A d \in positions : c <= d
             m == MatchAt(re, 1, s, <<i>>)
         IN  IF m # <<>> THEN m ELSE FirstMatch(re, s, positions \ {i})

\* the leftmost match starting at position from or later
FindFrom(re, s, from) ==
    FirstMatch(re, s, {i \in from .. Len(s) : CanStart(re, 1, s, i)})

\* what the k-th atom of match m took
Group(s, m, k) == SubSeq(s, m[k], m[k + 1] - 1)

\* parseInt(digits, radix)
RECURSIVE parseInt(_, _)
parseInt(digits, radix) ==
    IF digits = <<>> THEN 0
    ELSE LET last == digits[Len(digits)]
             v == IF IsDigit(last) THEN charCodeAt(last) - 48
                  ELSE charCodeAt(Lower(last)) - 97 + 10
         IN  parseInt(SubSeq(digits, 1, Len(digits) - 1), radix) * radix + v

\* String.fromCharCode(n)
fromCharCode(n) ==
    LET code == n % (256 * 256)
    IN  IF code \in 32 .. 126 THEN Ascii[code - 31]
        ELSE IF code = 9 THEN "\t"
        ELSE IF code = 10 THEN "\n"
        ELSE IF code = 160 THEN NoBreakSpace
        ELSE NonAscii

\* s.trim()
RECURSIVE trimStart(_)
trimStart(s) == IF s # <<>> /\ IsSpace(Head(s)) THEN trimStart(Tail(s)) ELSE s

RECURSIVE trimEnd(_)
trimEnd(s) ==
    IF s # <<>> /\ IsSpace(s[Len(s)]) THEN trimEnd(SubSeq(s, 1, Len(s) - 1)) ELSE s

trim(s) == trimEnd(trimStart(s))

\* what a replace puts for a match: a text, a group of the match ("$1"), or
\* the character whose code a group spells
Text(str) == [kind |-> "text", text |-> Chars(str), atom |-> 0, radix |-> 0]

GroupOf(k) == [kind |-> "group", text |-> <<>>, atom |-> k, radix |-> 0]

CharOfCode(k, radix) == [kind |-> "code", text |-> <<>>, atom |-> k, radix |-> radix]

Replacement(by, s, m) ==
    CASE by.kind = "text"  -> by.text
      [] by.kind = "group" -> Group(s, m, by.atom)
      [] by.kind = "code"  -> <<fromCharCode(parseInt(Group(s, m, by.atom), by.radix))>>

\* s.replace(re, by) with the g flag, from position from on
RECURSIVE ReplaceFrom(_, _, _, _)
ReplaceFrom(re, s, from, by) ==
    LET m == FindFrom(re, s, from)
    IN  IF m = <<>> THEN SubSeq(s, from, Len(s))
        ELSE SubSeq(s, from, m[1] - 1) \o Replacement(by, s, m)
                 \o ReplaceFrom(re, s, m[Len(m)], by)

replace(s, re, by) == ReplaceFrom(re, s, 1, by)

\* the replaces of a list applied one after the other, each one evaluated
\* before the next is entered
RECURSIVE ReplaceEach(_, _)
ReplaceEach(s, steps) ==
    IF steps = <<>> THEN s
    ELSE LET replaced == replace(s, Head(steps)[1], Head(steps)[2])
         IN  IF s = replaced THEN ReplaceEach(s, Tail(steps))
             ELSE ReplaceEach(replaced, Tail(steps))

(***************************************************************************)
(* cli/index.ts: extractLatex and cleanHtmlText                            *)
(***************************************************************************)
\* /&#(\d+);/g and /&#x([0-9a-fA-F]+);/g
DecimalEntity == RegExp(<<Lit("&#"), Greedy("digit", 1), Lit(";")>>, FALSE)

HexEntity == RegExp(<<Lit("&#x"), Greedy("hex", 1), Lit(";")>>, FALSE)

Entity(str) == RegExp(<<Lit(str)>>, FALSE)

\* /<math[^>]*>[\s\S]*?<annotation[^>]*encoding="application\/x-tex"[^>]*>
\*  ([\s\S]*?)<\/annotation>[\s\S]*?<\/math>/gi; the group is the 10th atom
AnnotatedMath ==
    RegExp(<<Lit("<math"), Greedy("notGt", 0), Lit(">"), Lazy("any"),
             Lit("<annotation"), Greedy("notGt", 0),
             Lit("encoding=\"application/x-tex\""), Greedy("notGt", 0), Lit(">"),
             Lazy("any"), Lit("</annotation>"), Lazy("any"), Lit("</math>")>>, TRUE)

\* the callback of extractLatex's replace: the annotation decoded, trimmed and
\* set between dollars
DecodeLatex(latex) ==
    LET decoded == ReplaceEach(latex,
                       <<<<Entity("&amp;"), Text("&")>>,
                         <<Entity("&lt;"), Text("<")>>,
                         <<Entity("&gt;"), Text(">")>>,
                         <<DecimalEntity, CharOfCode(2, 10)>>,
                         <<HexEntity, CharOfCode(2, 16)>>>>)
    IN  Chars(" $") \o trim(decoded) \o Chars("$ ")

RECURSIVE extractLatexFrom(_, _)
extractLatexFrom(html, from) ==
    LET m == FindFrom(AnnotatedMath, html, from)
    IN  IF m = <<>> THEN SubSeq(html, from, Len(html))
        ELSE SubSeq(html, from, m[1] - 1) \o DecodeLatex(Group(html, m, 10))
                 \o extractLatexFrom(html, m[Len(m)])

extractLatex(html) == extractLatexFrom(html, 1)

\* the replaces of cleanHtmlText that remove markup, in the order of the chain
StripSteps ==
    <<\* /<sup[^>]*class="reference"[^>]*>.*?<\/sup>/gi
      <<RegExp(<<Lit("<sup"), Greedy("notGt", 0), Lit("class=\"reference\""),
                 Greedy("notGt", 0), Lit(">"), Lazy("dot"), Lit("</sup>")>>, TRUE),
        Text("")>>,
      \* /<sup[^>]*class="noprint"[^>]*>.*?<\/sup>/gi
      <<RegExp(<<Lit("<sup"), Greedy("notGt", 0), Lit("class=\"noprint\""),
                 Greedy("notGt", 0), Lit(">"), Lazy("dot"), Lit("</sup>")>>, TRUE),
        Text("")>>,
      \* /<math[^>]*>[\s\S]*?<\/math>/gi
      <<RegExp(<<Lit("<math"), Greedy("notGt", 0), Lit(">"), Lazy("any"),
                 Lit("</math>")>>, TRUE),
        Text("")>>,
      \* /<span[^>]*class="[^"]*texhtml[^"]*"[^>]*>([\s\S]*?)<\/span>/gi, "$1"
      <<RegExp(<<Lit("<span"), Greedy("notGt", 0), Lit("class=\""),
                 Greedy("notQuote", 0), Lit("texhtml"), Greedy("notQuote", 0),
                 Lit("\""), Greedy("notGt", 0), Lit(">"), Lazy("any"),
                 Lit("</span>")>>, TRUE),
        GroupOf(10)>>,
      \* /<img[^>]*>/gi
      <<RegExp(<<Lit("<img"), Greedy("notGt", 0), Lit(">")>>, TRUE), Text("")>>,
      \* /<[^>]+>/g
      <<RegExp(<<Lit("<"), Greedy("notGt", 1), Lit(">")>>, FALSE), Text("")>>>>

\* the replaces of cleanHtmlText that decode entities, in the order of the chain
DecodeSteps ==
    <<<<Entity("&nbsp;"), Text(" ")>>,
      <<Entity("&amp;"), Text("&")>>,
      <<Entity("&lt;"), Text("<")>>,
      <<Entity("&gt;"), Text(">")>>,
      <<Entity("&quot;"), Text("\"")>>,
      <<DecimalEntity, CharOfCode(2, 10)>>,
      <<HexEntity, CharOfCode(2, 16)>>>>

\* /\s+/g, " "
WhitespaceSteps == <<<<RegExp(<<Greedy("space", 1)>>, FALSE), Text(" ")>>>>

\* a cleaner that tidies the whitespace before it decodes the entities
cleanHtmlTextDecodingLast(html) ==
    ReplaceEach(trim(ReplaceEach(ReplaceEach(extractLatex(html), StripSteps),
                                 WhitespaceSteps)),
                DecodeSteps)

cleanHtmlText(html) ==
    trim(ReplaceEach(ReplaceEach(ReplaceEach(extractLatex(html), StripSteps),
                                 DecodeSteps),
                     WhitespaceSteps))

(***************************************************************************)
(* cli/index.ts: extractMisconceptions                                     *)
(***************************************************************************)
\* /<h2[^>]*\s+id="([^"]+)"[^>]*>([\s\S]*?)<\/h2>/gi: the id is the 5th atom,
\* the title markup the 9th
h2Regex ==
    RegExp(<<Lit("<h2"), Greedy("notGt", 0), Greedy("space", 1), Lit("id=\""),
             Greedy("notQuote", 1), Lit("\""), Greedy("notGt", 0), Lit(">"),
             Lazy("any"), Lit("</h2>")>>, TRUE)

h3Regex ==
    RegExp(<<Lit("<h3"), Greedy("notGt", 0), Greedy("space", 1), Lit("id=\""),
             Greedy("notQuote", 1), Lit("\""), Greedy("notGt", 0), Lit(">"),
             Lazy("any"), Lit("</h3>")>>, TRUE)

\* /<li[^>]*>([\s\S]*?)<\/li>/gi: the content is the 4th atom
liRegex ==
    RegExp(<<Lit("<li"), Greedy("notGt", 0), Lit(">"), Lazy("any"), Lit("</li>")>>, TRUE)

\* while ((match = re.exec(s)) !== null): the matches one after the other,
\* each searched from the end of the one before
RECURSIVE execAll(_, _, _)
execAll(re, s, from) ==
    LET m == FindFrom(re, s, from)
    IN  IF m = <<>> THEN <<>> ELSE <<m>> \o execAll(re, s, m[Len(m)])

\* the boundaries pushed for the headings of one level; start is match.index,
\* counted from 1 as the positions of the model are
BoundariesOf(html, re, level) ==
    LET ms == execAll(re, html, 1)
    IN  [k \in 1 .. Len(ms) |->
            [id    |-> Group(html, ms[k], 5),
             title |-> cleanHtmlText(Group(html, ms[k], 9)),
             level |-> level,
             start |-> ms[k][1]]]

\* sectionBoundaries.sort((a, b) => a.start - b.start); no two starts are equal
SortByStart(bs) ==
    [k \in 1 .. Len(bs) |->
        bs[CHOOSE i \in 1 .. Len(bs) :
               Cardinality({j \in 1 .. Len(bs) : bs[j].start < bs[i].start}) = k - 1]]

sectionBoundaries(html) ==
    SortByStart(BoundariesOf(html, h2Regex, 2) \o BoundariesOf(html, h3Regex, 3))

skipSections ==
    {Chars("References"), Chars("See_also"), Chars("Notes"), Chars("External_links"),
     Chars("Further_reading"), Chars("Citations")}

\* currentSubsection = undefined
NoSubsection == <<"undefined">>

\* s.indexOf(sub), counted from 0; -1 when sub is not in s
indexOf(s, sub) ==
    LET at == {i \in 1 .. Len(s) - Len(sub) + 1 : SubSeq(s, i, i + Len(sub) - 1) = sub}
    IN  IF at = {} THEN -1 ELSE (CHOOSE i \in at : \A j \in at : i <= j) - 1

\* the content of a list item cut before its first "<ul>" or "<ol>"
BeforeNestedList(liContent) ==
    LET ul == indexOf(liContent, Chars("<ul>"))
        ol == indexOf(liContent, Chars("<ol>"))
    IN  IF ul = -1 /\ ol = -1 THEN liContent
        ELSE IF ul = -1 THEN SubSeq(liContent, 1, ol)
        ELSE IF ol = -1 THEN SubSeq(liContent, 1, ul)
        ELSE SubSeq(liContent, 1, Min(ul, ol))

\* text.startsWith(str)
startsWith(text, str) ==
    Len(text) >= Len(str) /\ SubSeq(text, 1, Len(str)) = Chars(str)

IsLowerLetter(c) == c \in DOMAIN CodeOf /\ charCodeAt(c) \in 97 .. 122

\* text.match(/^[a-z]\.\s/) with or without the i flag
matchesListMarker(text, ignoreCase) ==
    /\ Len(text) >= 3
    /\ IsLowerLetter(IF ignoreCase THEN Lower(text[1]) ELSE text[1])
    /\ text[2] = "."
    /\ IsSpace(text[3])

\* the condition under which a cleaned text is pushed
isKept(text) ==
    /\ Len(text) > 20
    /\ ~startsWith(text, "Main article:")
    /\ ~startsWith(text, "See also:")
    /\ ~matchesListMarker(text, TRUE)

\* the cleaned texts of the list items of one region, each with the section
\* and the subsection current in the region
ItemsOf(sectionHtml, section, subsection) ==
    LET ms == execAll(liRegex, sectionHtml, 1)
    IN  [k \in 1 .. Len(ms) |->
            [text       |-> cleanHtmlText(BeforeNestedList(Group(sectionHtml, ms[k], 4))),
             section    |-> section,
             subsection |-> subsection]]

\* a region that ends at the next heading that is not skipped
endIndexSkipping(bs, i, html) ==
    LET later == {j \in i + 1 .. Len(bs) : bs[j].id \notin skipSections}
    IN  IF later = {} THEN Len(html) + 1
        ELSE bs[CHOOSE j \in later : \A l \in later : j <= l].start

\* endIndex: the start of the next boundary, or the end of the page
endIndex(bs, i, html) == IF i < Len(bs) THEN bs[i + 1].start ELSE Len(html) + 1

\* the for loop over the boundaries from the i-th on: the items it comes to
RECURSIVE SectionLoop(_, _, _, _, _)
SectionLoop(html, bs, i, currentSection, currentSubsection) ==
    IF i > Len(bs) THEN <<>>
    ELSE LET boundary == bs[i] IN
         IF boundary.id \in skipSections
         THEN SectionLoop(html, bs, i + 1, currentSection, currentSubsection)
         ELSE LET section    == IF boundary.level = 2 THEN boundary.title ELSE currentSection
                  subsection == IF boundary.level = 2 THEN NoSubsection ELSE boundary.title
                  sectionHtml == SubSeq(html, boundary.start, endIndex(bs, i, html) - 1)
              IN  ItemsOf(sectionHtml, section, subsection)
                      \o SectionLoop(html, bs, i + 1, section, subsection)

\* the cleaned item texts the filter is given, in the order of the page
itemsOfPage(html) == SectionLoop(html, sectionBoundaries(html), 1, <<>>, NoSubsection)

\* the record pushed for an item that passes the filter
RecordOf(item, category, pageTitle) ==
    [id         |-> generateId(item.text),
     text       |-> item.text,
     section    |-> IF item.section # <<>> THEN item.section ELSE Chars(category),
     subsection |-> item.subsection,
     category   |-> category,
     source     |-> <<"https://en.wikipedia.org/wiki/", pageTitle>>]

\* the records pushed for the items the filter is given
misconceptionsOf(items, category, pageTitle) ==
    LET kept == SelectSeq(items, LAMBDA item : isKept(item.text))
    IN  [k \in 1 .. Len(kept) |-> RecordOf(kept[k], category, pageTitle)]

extractMisconceptions(html, category, pageTitle) ==
    misconceptionsOf(itemsOfPage(html), category, pageTitle)

(***************************************************************************)
(* Initial values of the parts a specification does not run.               *)
(***************************************************************************)
EnvInit == tz \in TimeZones /\ total \in 1 .. MaxTotal

IndexIdle == date = 0 /\ index = 0 /\ asked = FALSE

AppIdle == now = 0 /\ viewDate = 0

RangeIdle == startDate = 0 /\ days = 0 /\ results = <<>> /\ ranged = FALSE

EnvIdle == tz = "UTC" /\ total = 1

PullIdle ==
    /\ pc = "idle"
    /\ page = 0
    /\ allMisconceptions = <<>>
    /\ output = Output(<<>>)
    /\ file = NoFile
    /\ before = NoFile
    /\ extracted = <<>>

CleanIdle == fragment = <<>> /\ cleaned = <<>> /\ recleaned = <<>> /\ stage = "raw"

MathIdle == parts = <<>> /\ normalized = <<>>

ExtractIdle == blocks = <<>> /\ candidates = <<>> /\ found = <<>> /\ parsed = FALSE

(***************************************************************************)
(* The rotation scheduler called on its own: any date, any size.           *)
(***************************************************************************)
IndexInit ==
    /\ EnvInit
    /\ date \in Instants
    /\ index = 0
    /\ asked = FALSE
    /\ AppIdle /\ RangeIdle /\ PullIdle /\ CleanIdle /\ MathIdle /\ ExtractIdle

CallGetDailyIndex ==
    /\ ~asked
    /\ index' = getDailyIndex(date, total)
    /\ asked' = TRUE
    /\ UNCHANGED <<envVars, date, appVars, rangeVars, pullVars, cleanVars, mathVars, extractVars>>

IndexNext == CallGetDailyIndex

IndexSpec == IndexInit /\ [][IndexNext]_vars

\* C1: the days of one cycle (day numbers cycle * total + k, k in 0 .. total-1,
\* also of a cycle before the epoch) get the indices 0 .. total-1, each exactly
\* once; the index returned for the date asked is one of them.
C1_FullCycle ==
    asked =>
        LET cycle == date \div (24 * total)
            hour  == date % 24
            ofDay(k) == getDailyIndex(24 * (cycle * total + k) + hour, total)
        IN  /\ \A v \in 0 .. total - 1 :
                   Cardinality({k \in 0 .. total - 1 : ofDay(k) = v}) = 1
            /\ \E k \in 0 .. total - 1 :
                   24 * (cycle * total + k) + hour = date /\ ofDay(k) = index

\* a date two cycles before the epoch got the last index of the collection
C1_Witness ==
    asked /\ total >= 3 /\ date < -24 * total /\ index = total - 1

\* C2: the index returned for any date, before or after the epoch, is an
\* integer with 0 <= index < total.
C2_IndexInRange == asked => index \in 0 .. total - 1

\* a date before the epoch whose day number has a negative remainder
C2_Witness ==
    /\ asked /\ total >= 2 /\ date < 0
    /\ JsRem(DaysSinceEpoch(date), total) < 0
    /\ index \in 1 .. total - 1

(***************************************************************************)
(* The App: the viewer opens the page at some instant and walks the days.  *)
(* today is taken once; a session is short beside the hour the clock       *)
(* counts in.                                                              *)
(***************************************************************************)
AppInit ==
    /\ EnvInit
    /\ now \in Instants
    /\ viewDate = now
    /\ IndexIdle /\ RangeIdle /\ PullIdle /\ CleanIdle /\ MathIdle /\ ExtractIdle

\* the record shown: misconceptions[dailyIndex]
dailyIndex == getDailyIndex(viewDate, total)

goToPreviousDay ==
    /\ LocalDay(tz, now) - LocalDay(tz, viewDate) < MaxBack
    /\ viewDate' = addDays(tz, viewDate, -1)
    /\ UNCHANGED <<envVars, indexVars, now, rangeVars, pullVars, cleanVars, mathVars, extractVars>>

goToNextDay ==
    /\ ~isSameDay(tz, viewDate, now)
    /\ viewDate' = addDays(tz, viewDate, 1)
    /\ UNCHANGED <<envVars, indexVars, now, rangeVars, pullVars, cleanVars, mathVars, extractVars>>

goToToday ==
    /\ ~isSameDay(tz, viewDate, now)
    /\ viewDate' = now
    /\ UNCHANGED <<envVars, indexVars, now, rangeVars, pullVars, cleanVars, mathVars, extractVars>>

AppNext == goToPreviousDay \/ goToNextDay \/ goToToday

AppSpec == AppInit /\ [][AppNext]_vars

\* C3: every instant of the local calendar day shown gets the index shown, and
\* an instant of the next local calendar day gets the next day number, also on
\* a day whose offset differs from the offset at the epoch's midnight.
C3_OneRecordPerCalendarDay ==
    \A t \in viewDate - 25 .. viewDate + 49 :
        /\ isSameDay(tz, t, viewDate) => getDailyIndex(t, total) = dailyIndex
        /\ LocalDay(tz, t) = LocalDay(tz, viewDate) + 1
               => DaysSinceEpoch(t) = DaysSinceEpoch(viewDate) + 1

(***************************************************************************)
(* The range query called on its own: any start, any signed count.         *)
(***************************************************************************)
RangeInit ==
    /\ EnvInit
    /\ startDate \in Instants
    /\ days \in -MaxDays .. MaxDays
    /\ results = <<>>
    /\ ranged = FALSE
    /\ IndexIdle /\ AppIdle /\ PullIdle /\ CleanIdle /\ MathIdle /\ ExtractIdle

CallGetDateRangeIndices ==
    /\ ~ranged
    /\ results' = getDateRangeIndices(tz, startDate, days, total)
    /\ ranged' = TRUE
    /\ UNCHANGED <<envVars, indexVars, appVars, startDate, days, pullVars, cleanVars, mathVars, extractVars>>

RangeNext == CallGetDateRangeIndices

RangeSpec == RangeInit /\ [][RangeNext]_vars

\* C8: the range query returns |days| pairs, for consecutive local calendar
\* days, in strictly increasing date order whatever the sign of days; the
\* start's day is the first when days > 0 and the last when days < 0 (no pair
\* when days = 0), and where the clock is never changed that date is start
\* itself; each pair's index is getDailyIndex of the pair's date.
C8_RangeQuery ==
    ranged =>
        /\ Len(results) = Abs(days)
        /\ \A i \in 1 .. Len(results) - 1 :
               /\ results[i + 1].date > results[i].date
               /\ LocalDay(tz, results[i + 1].date) = LocalDay(tz, results[i].date) + 1
        /\ days > 0 => isSameDay(tz, results[1].date, startDate)
        /\ days < 0 => isSameDay(tz, results[Len(results)].date, startDate)
        /\ (tz = "UTC" /\ days > 0) => results[1].date = startDate
        /\ (tz = "UTC" /\ days < 0) => results[Len(results)].date = startDate
        /\ \A i \in 1 .. Len(results) :
               results[i].index = getDailyIndex(results[i].date, total)

\* a backward walk over MaxDays days that crosses the start of daylight saving
C8_Witness ==
    /\ ranged /\ days = -MaxDays /\ Len(results) = MaxDays /\ total >= 2
    /\ Offset(tz, results[1].date) = 0
    /\ Offset(tz, startDate) = 1

\* C9: the forward query from d over N days and the backward query from
\* d + N - 1 over N days return the same days with the same indices, and
\* where the clock is never changed the very same pairs.
C9_RoundTrip ==
    (ranged /\ days >= 1) =>
        LET back == getDateRangeIndices(tz, addDays(tz, startDate, days - 1), -days, total)
        IN  /\ Len(back) = Len(results)
            /\ \A i \in 1 .. Len(results) :
                   /\ isSameDay(tz, back[i].date, results[i].date)
                   /\ back[i].index = results[i].index
            /\ tz = "UTC" => back = results

\* a forward walk of MaxDays days whose last day is the day the clock is put
\* forward, started at the wall-clock hour that day skips
C9_Witness ==
    /\ ranged /\ days = MaxDays /\ total >= 2 /\ tz # "UTC"
    /\ LocalDay(tz, startDate) = SpringDay - (MaxDays - 1)
    /\ LocalTime(tz, startDate) % 24 = SwitchHour(tz)
    /\ LocalTime(tz, results[MaxDays].date) % 24 # LocalTime(tz, startDate) % 24

(***************************************************************************)
(* The pull command.  Its steps end at its awaits: the fetch of a page     *)
(* (the extraction and the push follow the fetch without a break, and the  *)
(* merge follows the last page) and the write of the file.  The command    *)
(* may be run again once it has ended.                                     *)
(***************************************************************************)
PullInit == EnvIdle /\ IndexIdle /\ AppIdle /\ RangeIdle /\ PullIdle /\ CleanIdle /\ MathIdle /\ ExtractIdle

\* the action starts and awaits the fetch of the first page
StartPull ==
    /\ pc \in {"idle", "done", "failed"}
    /\ pc' = "fetching"
    /\ page' = 1
    /\ allMisconceptions' = <<>>
    /\ extracted' = <<>>
    /\ output' = Output(<<>>)
    /\ before' = file
    /\ UNCHANGED <<envVars, indexVars, appVars, rangeVars, cleanVars, mathVars, extractVars, file>>

\* the rest of the loop body for the page awaited, then the next page's fetch
\* or, after the last page, the merge and the call of writeFile
PageDone(outcome) ==
    LET all  == PushPage(allMisconceptions, outcome)
        next == PageAfter(page, outcome)
    IN  /\ allMisconceptions' = all
        /\ extracted' = Append(extracted, outcome)
        /\ page' = next
        /\ IF next <= Len(WIKIPEDIA_PAGES)
           THEN pc' = "fetching" /\ output' = output
           ELSE pc' = "writing" /\ output' = Output(uniqueMisconceptions(all))
        /\ UNCHANGED <<envVars, indexVars, appVars, rangeVars, cleanVars, mathVars, extractVars, file, before>>

\* the fetch rejects, the response is not ok, or the extraction throws on
\* what came back: the catch logs it
PageThrows ==
    /\ pc = "fetching"
    /\ PageDone(Threw)

\* the page is fetched and extractMisconceptions returns its records
PageSucceeds ==
    /\ pc = "fetching"
    /\ \E texts \in Extractions :
        /\ Len(allMisconceptions) + Len(texts) <= MaxCandidates
        /\ PageDone(Returned(MisconceptionsOf(texts, page)))

WriteResolves ==
    /\ pc = "writing"
    /\ file' = writeFile(file, output)
    /\ pc' = "done"
    /\ UNCHANGED <<envVars, indexVars, appVars, rangeVars, cleanVars, mathVars, extractVars,
                   page, allMisconceptions, output, before, extracted>>

\* writeFile rejects: the action ends with the rejection; the file is as it
\* was or cut short
WriteRejects ==
    /\ pc = "writing"
    /\ file' \in {file, CutFile}
    /\ pc' = "failed"
    /\ UNCHANGED <<envVars, indexVars, appVars, rangeVars, cleanVars, mathVars, extractVars,
                   page, allMisconceptions, output, before, extracted>>

PullNext == StartPull \/ PageThrows \/ PageSucceeds \/ WriteResolves \/ WriteRejects

PullSpec == PullInit /\ [][PullNext]_vars

\* the records the pages that did not throw returned, in the order of the
\* page list
RECURSIVE CandidatesFrom(_)
CandidatesFrom(p) ==
    IF p > Len(extracted) THEN <<>>
    ELSE (IF extracted[p].threw THEN <<>> ELSE extracted[p].misconceptions)
             \o CandidatesFrom(p + 1)

Candidates == CandidatesFrom(1)

Merged == pc \in {"writing", "done", "failed"}

IdsOf(records) == {records[k].id : k \in 1 .. Len(records)}

\* C4: after the merge no two records of the output share an id, and
\* totalCount is the number of records of the output's list.
C4_DedupInvariant ==
    Merged =>
        /\ \A i, j \in 1 .. Len(output.misconceptions) :
               output.misconceptions[i].id = output.misconceptions[j].id => i = j
        /\ output.totalCount = Len(output.misconceptions)
        /\ pc = "done" => file.totalCount = Len(file.misconceptions)

\* a merge of two candidates of one id returned by one page
C4_Witness ==
    /\ pc = "done"
    /\ \E p \in 1 .. Len(extracted) :
           /\ Len(extracted[p].misconceptions) = 2
           /\ Cardinality(IdsOf(extracted[p].misconceptions)) = 1
    /\ output.totalCount = 1

\* C5: of the candidates of one id the output keeps the one that comes last in
\* the concatenation of the pages' records in the order of the page list.
C5_LastWriteWins ==
    Merged =>
        LET cands == Candidates
            out   == output.misconceptions
        IN  \A k \in 1 .. Len(out) :
                LET same == {i \in 1 .. Len(cands) : cands[i].id = out[k].id}
                IN  /\ same # {}
                    /\ out[k] = cands[CHOOSE i \in same : \A j \in same : j <= i]

\* two pages returned different texts of one id: the later page's is kept
C5_Witness ==
    /\ pc = "done"
    /\ Len(extracted) = 3
    /\ extracted[1] = Returned(<<Misconception(<<"A", "b", ".">>, 1)>>)
    /\ extracted[3] = Returned(<<Misconception(<<"a", "B", ".">>, 3)>>)
    /\ output.misconceptions = <<Misconception(<<"a", "B", ".">>, 3)>>

\* C17: the output lists the ids in the order of their first occurrence among
\* the candidates (in the order of the page list), each with the record of
\* its last occurrence: a later duplicate replaces the content at the place
\* of the earlier record and moves no record of the output.
C17_MergedOrder ==
    Merged =>
        LET cands  == Candidates
            out    == output.misconceptions
            firsts == {i \in 1 .. Len(cands) : \A j \in 1 .. i - 1 : cands[j].id # cands[i].id}
        IN  /\ Len(out) = Cardinality(firsts)
            /\ \A i \in firsts :
                   LET k    == Cardinality({j \in firsts : j <= i})
                       same == {j \in 1 .. Len(cands) : cands[j].id = cands[i].id}
                   IN  out[k] = cands[CHOOSE j \in same : \A l \in same : l <= j]

\* the first page returned two records, the last page a duplicate of the first
\* of them: its content is at the first place, the other record stays second
C17_Witness ==
    /\ pc = "done"
    /\ Len(extracted) = 3
    /\ extracted[1] = Returned(<<Misconception(<<"A", "b", ".">>, 1),
                                 Misconception(<<"C", "d", ".">>, 1)>>)
    /\ extracted[2].threw = FALSE /\ extracted[2].misconceptions = <<>>
    /\ extracted[3] = Returned(<<Misconception(<<"a", "B", ".">>, 3)>>)
    /\ file.misconceptions = <<Misconception(<<"a", "B", ".">>, 3),
                               Misconception(<<"C", "d", ".">>, 1)>>

\* C6: whichever pages throw, every page is gone through, the merge and the
\* write are reached, a page that threw adds no record, and the output is the
\* deduplicated union of what the other pages returned.
C6_FailureIsolation ==
    /\ pc = "fetching" => page = Len(extracted) + 1 /\ page <= Len(WIKIPEDIA_PAGES)
    /\ Merged =>
        LET cands == Candidates
            out   == output.misconceptions
        IN  /\ Len(extracted) = Len(WIKIPEDIA_PAGES)
            /\ allMisconceptions = cands
            /\ IdsOf(out) = IdsOf(cands)
            /\ Len(out) = Cardinality(IdsOf(cands))
            /\ \A k \in 1 .. Len(out) : \E i \in 1 .. Len(cands) : cands[i] = out[k]

\* the first and the last page threw, the middle one's two records were written
C6_Witness ==
    /\ pc = "done"
    /\ Len(extracted) = 3
    /\ extracted[1].threw /\ extracted[3].threw
    /\ ~extracted[2].threw /\ Len(extracted[2].misconceptions) = 2
    /\ file.totalCount = 2

\* C7 as the spec states it: a record the file held before a run, whose id the
\* run does not produce, is still in the file after the run.
C7_RerunKeepsOthers ==
    pc = "done" =>
        LET ids == IdsOf(Candidates)
        IN  \A k \in 1 .. Len(before.misconceptions) :
                before.misconceptions[k].id \notin ids
                    => \E j \in 1 .. Len(file.misconceptions) :
                           file.misconceptions[j] = before.misconceptions[k]

\* C7 amended: the write replaces the file; after a run the file holds the
\* records that run produced and nothing else.
C7_RerunReplaces ==
    pc = "done" =>
        LET cands == Candidates
        IN  /\ file.state = "written"
            /\ IdsOf(file.misconceptions) = IdsOf(cands)
            /\ \A j \in 1 .. Len(file.misconceptions) :
                   \E i \in 1 .. Len(cands) : cands[i] = file.misconceptions[j]

\* a rerun that does not produce an id the file held: the record is gone
C7_Witness ==
    /\ pc = "done"
    /\ before.state = "written"
    /\ \E k \in 1 .. Len(before.misconceptions) :
           /\ before.misconceptions[k].id \notin IdsOf(Candidates)
           /\ before.misconceptions[k].id \notin IdsOf(file.misconceptions)
    /\ Len(file.misconceptions) > 0

(***************************************************************************)
(* The markup cleaner called on its own, and then on what it returned.     *)
(***************************************************************************)
\* the pieces the fragments are made of: entities whole and in parts, a tag,
\* the characters a tag is made of, text and whitespace
Pieces ==
    {Chars(str) : str \in {"&lt;", "&gt;", "&amp;", "amp;", "lt;", "&nbsp;", "&quot;",
                           "&#38;", "&#x3C;", "<b>", "<", ">", "b", " "}}

RECURSIVE Concatenations(_, _)
Concatenations(S, n) ==
    IF n = 0 THEN {<<>>}
    ELSE LET shorter == Concatenations(S, n - 1)
         IN  shorter \cup {q \o x : q \in shorter, x \in S}

Fragments == Concatenations(Pieces, MaxFragments)

CleanInit ==
    /\ EnvIdle /\ IndexIdle /\ AppIdle /\ RangeIdle /\ PullIdle
    /\ MathIdle /\ ExtractIdle
    /\ fragment \in Fragments
    /\ cleaned = <<>>
    /\ recleaned = <<>>
    /\ stage = "raw"

CallCleanHtmlText ==
    /\ stage = "raw"
    /\ cleaned' = cleanHtmlText(fragment)
    /\ stage' = "cleaned"
    /\ UNCHANGED <<envVars, indexVars, appVars, rangeVars, pullVars, mathVars, extractVars, fragment, recleaned>>

CallCleanHtmlTextAgain ==
    /\ stage = "cleaned"
    /\ recleaned' = cleanHtmlText(cleaned)
    /\ stage' = "recleaned"
    /\ UNCHANGED <<envVars, indexVars, appVars, rangeVars, pullVars, mathVars, extractVars, fragment, cleaned>>

CleanNext == CallCleanHtmlText \/ CallCleanHtmlTextAgain

CleanSpec == CleanInit /\ [][CleanNext]_vars

\* text that reads as a tag: "<", one or more characters other than ">", ">"
HasTag(s) ==
    \E i, j \in 1 .. Len(s) :
        /\ s[i] = "<" /\ s[j] = ">" /\ j > i + 1
        /\ \A k \in i + 1 .. j - 1 : s[k] # ">"

HasText(s, str) ==
    \E i \in 1 .. Len(s) - Len(str) + 1 : SubSeq(s, i, i + Len(str) - 1) = Chars(str)

\* text that reads as an entity the cleaner decodes
HasEntity(s) ==
    \/ \E name \in {"&nbsp;", "&amp;", "&lt;", "&gt;", "&quot;"} : HasText(s, name)
    \/ \E i, j \in 1 .. Len(s) :
           /\ j > i + 2 /\ s[i] = "&" /\ s[i + 1] = "#" /\ s[j] = ";"
           /\ \/ \A k \in i + 2 .. j - 1 : IsDigit(s[k])
              \/ /\ j > i + 3 /\ s[i + 2] = "x"
                 /\ \A k \in i + 3 .. j - 1 : IsHexDigit(s[k])

\* C10 as the spec states it: cleaning the cleaned text changes nothing, for
\* every fragment, also one whose entities decode to "<", ">" or "&".
C10_Idempotent == stage = "recleaned" => recleaned = cleaned

\* C10 amended: cleaning the cleaned text changes nothing exactly when the
\* cleaned text holds nothing that reads as a tag and nothing that reads as
\* an entity the cleaner decodes; decoded entities can leave either.
C10_IdempotentOnPlainText ==
    stage = "recleaned" =>
        (recleaned = cleaned <=> ~HasTag(cleaned) /\ ~HasEntity(cleaned))

\* an encoded tag: the first pass decodes it, the second strips it
C10_Witness ==
    /\ stage = "recleaned"
    /\ fragment = Chars("&lt;b&gt;")
    /\ cleaned = Chars("<b>")
    /\ recleaned = <<>>

(***************************************************************************)
(* The math normalizer inside the cleaner: a fragment made of prose and of *)
(* math elements is given to cleanHtmlText, which first calls extractLatex *)
(* and then runs its chain of replaces on what extractLatex returned.      *)
(***************************************************************************)
Prose(str) == [kind |-> "prose", body |-> Chars(str)]

\* a math element without a TeX annotation
BareMath(str) == [kind |-> "bare", body |-> Chars(str)]

\* a math element whose annotation holds the TeX source, entities encoded
TexMath(str) == [kind |-> "annotated", body |-> Chars(str)]

PartKinds ==
    {Prose("p "), Prose("<i>q</i>"), BareMath("<mi>x</mi>"),
     TexMath("x^2"), TexMath(" y "), TexMath("a&lt;b"),
     TexMath("c&gt;d")}

\* the markup of a part, as the page holds it
Markup(part) ==
    CASE part.kind = "prose" -> part.body
      [] part.kind = "bare"  -> Chars("<math>") \o part.body \o Chars("</math>")
      [] part.kind = "annotated" ->
             Chars("<math><annotation encoding=\"application/x-tex\">") \o part.body
                 \o Chars("</annotation></math>")

RECURSIVE MarkupOf(_)
MarkupOf(ps) == IF ps = <<>> THEN <<>> ELSE Markup(Head(ps)) \o MarkupOf(Tail(ps))

MathInit ==
    /\ EnvIdle /\ IndexIdle /\ AppIdle /\ RangeIdle /\ PullIdle /\ ExtractIdle
    /\ parts \in SeqsUpTo(PartKinds, MaxParts)
    /\ fragment = MarkupOf(parts)
    /\ normalized = <<>>
    /\ cleaned = <<>>
    /\ recleaned = <<>>
    /\ stage = "raw"

\* cleanHtmlText is entered and extractLatex returns
CallExtractLatex ==
    /\ stage = "raw"
    /\ normalized' = extractLatex(fragment)
    /\ stage' = "normalized"
    /\ UNCHANGED <<envVars, indexVars, appVars, rangeVars, pullVars, extractVars,
                   fragment, cleaned, recleaned, parts>>

\* the chain of replaces runs and cleanHtmlText returns
ReturnCleanHtmlText ==
    /\ stage = "normalized"
    /\ cleaned' = cleanHtmlText(fragment)
    /\ stage' = "cleaned"
    /\ UNCHANGED <<envVars, indexVars, appVars, rangeVars, pullVars, extractVars,
                   fragment, normalized, recleaned, parts>>

MathNext == CallExtractLatex \/ ReturnCleanHtmlText

MathSpec == MathInit /\ [][MathNext]_vars

Contains(s, sub) ==
    \E i \in 1 .. Len(s) - Len(sub) + 1 : SubSeq(s, i, i + Len(sub) - 1) = sub

\* the formula extractLatex puts between the dollars for an annotation
Formula(body) == LET d == DecodeLatex(body) IN SubSeq(d, 3, Len(d) - 2)

\* what the claims expect of extractLatex: an annotated math element becomes
\* its formula between dollars, everything else stays as it is
RECURSIVE Normalized(_)
Normalized(ps) ==
    IF ps = <<>> THEN <<>>
    ELSE (IF Head(ps).kind = "annotated" THEN DecodeLatex(Head(ps).body)
          ELSE Markup(Head(ps)))
             \o Normalized(Tail(ps))

\* C11: the formula of every annotated math element, whitespace collapsed, is
\* in the cleaned text between its dollars, also a formula with "<" or ">".
C11_MathSpanPreserved ==
    stage = "cleaned" =>
        \A k \in 1 .. Len(parts) :
            parts[k].kind = "annotated" =>
                Contains(cleaned,
                         Chars("$") \o ReplaceEach(Formula(parts[k].body), WhitespaceSteps)
                             \o Chars("$"))

\* C16: extractLatex rewrites the annotated math elements and nothing else;
\* prose between a bare math element and a later annotated one stays.
C16_OnlyAnnotatedRewritten == stage # "raw" => normalized = Normalized(parts)

(***************************************************************************)
(* extractMisconceptions called on a page: headings of the two levels and  *)
(* bulleted lists of one item each, in any order.                          *)
(***************************************************************************)
Heading(level, id, title) ==
    [kind |-> "heading", level |-> level, id |-> Chars(id), text |-> Chars(title),
     subs |-> <<>>]

\* a list item with its text and the texts of the items of its nested list
Item(text, subs) ==
    [kind |-> "item", level |-> 0, id |-> <<>>, text |-> Chars(text),
     subs |-> [k \in 1 .. Len(subs) |-> Chars(subs[k])]]

RECURSIVE ItemsMarkup(_)
ItemsMarkup(texts) ==
    IF texts = <<>> THEN <<>>
    ELSE Chars("<li>") \o Head(texts) \o Chars("</li>") \o ItemsMarkup(Tail(texts))

\* the markup of a block, as the parse API returns it
BlockMarkup(b) ==
    IF b.kind = "heading"
    THEN Chars(IF b.level = 2 THEN "<h2 id=\"" ELSE "<h3 id=\"") \o b.id \o Chars("\">")
             \o b.text \o Chars(IF b.level = 2 THEN "</h2>" ELSE "</h3>")
    ELSE Chars("<ul><li>") \o b.text
             \o (IF b.subs = <<>> THEN <<>>
                 ELSE Chars("<ul>") \o ItemsMarkup(b.subs) \o Chars("</ul>"))
             \o Chars("</li></ul>")

RECURSIVE PageMarkup(_)
PageMarkup(bs) == IF bs = <<>> THEN <<>> ELSE BlockMarkup(Head(bs)) \o PageMarkup(Tail(bs))

\* headings kept and denylisted of both levels, and two items the filter keeps
PageBlocks ==
    {Heading(2, "A", "Alpha"), Heading(2, "Notes", "Notes"),
     Heading(3, "B", "Beta"), Heading(3, "See_also", "See also"),
     Item("Bats are not blind at all.", <<>>), Item("Glass is not a liquid.", <<>>)}

\* items the filter keeps and items it rejects, without and with a nested list
ListItems ==
    {Item("Bats are not blind at all.", <<>>),
     Item("Bats do see anything", <<>>),
     Item("Main article: Bats and birds", <<>>),
     Item("See also: Bats and birds", <<>>),
     Item("a. bats are not blind at all", <<>>),
     Item("J. R. R. Tolkien did not do it.", <<>>),
     Item("Glass is not a liquid.", <<"It does not flow at all.">>),
     Item("Glass is a solid, not a liquid.",
          <<"Old panes were made uneven.", "It does not flow at all.">>)}

ExtractInit ==
    /\ EnvIdle /\ IndexIdle /\ AppIdle /\ RangeIdle /\ PullIdle /\ CleanIdle /\ MathIdle
    /\ blocks \in SeqsUpTo(PageBlocks, MaxBlocks)
    /\ candidates = <<>>
    /\ found = <<>>
    /\ parsed = FALSE

\* one section heading and a list of items under it
ItemInit ==
    /\ EnvIdle /\ IndexIdle /\ AppIdle /\ RangeIdle /\ PullIdle /\ CleanIdle /\ MathIdle
    /\ \E items \in SeqsUpTo(ListItems, MaxItems) :
           blocks = <<Heading(2, "A", "Alpha")>> \o items
    /\ candidates = <<>>
    /\ found = <<>>
    /\ parsed = FALSE

\* the pull action's call of extractMisconceptions for its first page: the
\* items the loops come to, and the records pushed for them
CallExtractMisconceptions ==
    /\ ~parsed
    /\ candidates' = itemsOfPage(PageMarkup(blocks))
    /\ found' = misconceptionsOf(candidates', WIKIPEDIA_PAGES[1], "page")
    /\ parsed' = TRUE
    /\ UNCHANGED <<envVars, indexVars, appVars, rangeVars, pullVars, cleanVars, mathVars,
                   blocks>>

ExtractNext == CallExtractMisconceptions

ExtractSpec == ExtractInit /\ [][ExtractNext]_vars

ItemSpec == ItemInit /\ [][ExtractNext]_vars

TextsOf(records) == [k \in 1 .. Len(records) |-> records[k].text]

\* the blocks with, for each, the heading whose region it lies in (0: none)
\* and the most recent top-level heading before it (0: none)
RECURSIVE Located(_, _, _, _)
Located(bs, k, region, top) ==
    IF k > Len(bs) THEN <<>>
    ELSE IF bs[k].kind = "heading"
         THEN Located(bs, k + 1, k, IF bs[k].level = 2 THEN k ELSE top)
         ELSE <<[block |-> k, region |-> region, top |-> top]>>
                  \o Located(bs, k + 1, region, top)

\* the items of the page that lie in the region of a heading not denylisted
ItemsInKeptRegions ==
    SelectSeq(Located(blocks, 1, 0, 0),
              LAMBDA it : it.region # 0 /\ blocks[it.region].id \notin skipSections)

\* C12: of an item with a nested list only the text before the nested list is
\* a candidate: the candidates are the top-level items, one each, and no
\* record has the text of a nested item.
C12_NestedItemsDropped ==
    parsed =>
        /\ TextsOf(candidates) = [k \in 1 .. Len(blocks) - 1 |-> blocks[k + 1].text]
        /\ \A r \in 1 .. Len(found) : \A k \in 1 .. Len(blocks) : \A n \in 1 .. Len(blocks[k].subs) :
               found[r].text # blocks[k].subs[n]

\* the rejection rules as the spec states them
IsRejected(text) ==
    \/ Len(text) <= 20
    \/ startsWith(text, "Main article:")
    \/ startsWith(text, "See also:")
    \/ /\ Len(text) >= 3 /\ IsLowerLetter(text[1]) /\ text[2] = "." /\ text[3] = " "

\* C13: the records are the candidates that no rejection rule rejects; a text
\* that begins with an uppercase letter and ". " is accepted.
C13_AcceptedIffNotRejected ==
    parsed => TextsOf(found) = SelectSeq(TextsOf(candidates), LAMBDA text : ~IsRejected(text))

\* C14: a record from the region of a second-level heading has the title of
\* the most recent top-level heading before that region as its section, also
\* when that top-level heading is denylisted.
C14_ParentOfSubsection ==
    parsed =>
        LET items == ItemsInKeptRegions
        IN  /\ Len(found) = Len(items)
            /\ \A k \in 1 .. Len(items) :
                   (blocks[items[k].region].level = 3 /\ items[k].top # 0)
                       => found[k].section = blocks[items[k].top].text

\* C15: the records are the items that lie in the region of a heading that is
\* not denylisted, a region ending where the next heading of either level
\* starts: no item of a denylisted heading's region is a record, under its own
\* heading or under the one before.
C15_DenylistedExcluded ==
    parsed =>
        LET items == ItemsInKeptRegions
        IN  /\ TextsOf(found) = [k \in 1 .. Len(items) |-> blocks[items[k].block].text]
            /\ \A k \in 1 .. Len(items) :
                   blocks[items[k].region].level = 3
                       => found[k].subsection = blocks[items[k].region].text

\* an item under a kept heading, then a denylisted heading with an item of its
\* own: the first item is the only record
C15_Witness ==
    /\ parsed
    /\ blocks = <<Heading(2, "A", "Alpha"), Item("Bats are not blind at all.", <<>>),
                  Heading(2, "Notes", "Notes"), Item("Glass is not a liquid.", <<>>)>>
    /\ TextsOf(found) = <<Chars("Bats are not blind at all.")>>
    /\ found[1].section = Chars("Alpha")
====
